---- MODULE Spec2Model ----
(***************************************************************************)
(* HdfsFile (src/src/HdfsFile.cpp): the LZO-streaming writer of scribe.    *)
(* One HdfsFile instance writing one named file of an HDFS sink.           *)
(*                                                                         *)
(* Bytes are integers 0..255, strings are sequences of bytes.  The sink   *)
(* (libhdfs) and the compressor (liblzo2) are external libraries: the sink *)
(* is a file that records every hdfsWrite call made on it, the compressor  *)
(* is a small decodable codec standing in for lzo1x.                       *)
(***************************************************************************)
EXTENDS Integers, Sequences, FiniteSets, TLC

\* ------------------------------------------------------------------ bounds
\* The block size, scaled down from 256 KiB.
lzo_block_size == 2
\* Number of bytes the caller hands to write() in one behaviour, over all
\* its calls.
MaxBytes == 4
\* Number of calls made on the instance in one behaviour.
MaxOps == 3
\* Number of failures injected into the libraries in one behaviour.
MaxFaults == 1

\* The byte values callers write: NUL and two letters.
Bytes == {0, 65, 66}
\* The compression levels callers set.
Levels == {0, 1}
\* The lzo_checksum member before openWrite first sets it: the constructor
\* leaves it indeterminate, and it stays so whatever is folded into it.
Indeterminate == <<-1, -1>>

\* ------------------------------------------------------------- program data
F_ADLER32_D == 1
F_ADLER32_C == 2
lzo_flags == 3
lzo_method == 1
LZOP_VERSION == 4112
lzop_version_needed_to_extract == 2368
FileMode == 436
lzop_magic == <<137, 76, 90, 79, 0, 13, 10, 26, 10>>
\* lzo_version() of the linked library (LZO 2.03).
lzo_version == 8240
\* basename(filename.substr(0, -3)): substr with a negative count keeps the
\* whole name, so this is the base name of the file, here "f".
baseFile == <<102>>

\* ------------------------------------------------------------------ strings
Min(S) == CHOOSE x \in S : \A y \in S : x <= y

SeqsUpTo(S, n) == UNION {[1..k -> S] : k \in 0..n}

\* string(s.data()): the constructor from a C string stops at the first NUL.
CStr(s) ==
  LET nul == {i \in 1..Len(s) : s[i] = 0}
  IN  IF nul = {} THEN s ELSE SubSeq(s, 1, Min(nul) - 1)

\* std::string::substr(pos, n): at most n bytes from 0-based pos.
substr(s, pos, n) ==
  LET last == IF pos + n > Len(s) THEN Len(s) ELSE pos + n
  IN  SubSeq(s, pos + 1, last)

\* The four bytes LZOStringAppendInt32 appends, most significant first.
Int32Bytes(v) ==
  << (v \div 16777216) % 256, (v \div 65536) % 256, (v \div 256) % 256, v % 256 >>

\* The same for a 32-bit checksum, kept as its high and low 16 bits.
Word32Bytes(w) ==
  << w[1] \div 256, w[1] % 256, w[2] \div 256, w[2] % 256 >>

\* The two bytes LZOStringAppendInt16 appends.
Int16Bytes(v) == << (v \div 256) % 256, v % 256 >>

\* lzo_adler32(adler, buf, len): s1 is the low half, s2 the high half.
RECURSIVE Adler(_, _, _)
Adler(s1, s2, buf) ==
  IF buf = <<>> THEN <<s2, s1>>
  ELSE LET a == (s1 + Head(buf)) % 65521
       IN  Adler(a, (s2 + a) % 65521, Tail(buf))

lzo_adler32(adler, buf) ==
  IF adler = Indeterminate THEN Indeterminate ELSE Adler(adler[2], adler[1], buf)

\* ADLER32_INIT_VALUE
ADLER32_INIT == <<0, 1>>

\* ---------------------------------------------------------------- compressor
\* lzo1x_1_compress / lzo1x_999_compress, as a codec over bytes below 128: two
\* equal neighbours become one byte with the top bit set.
RECURSIVE Pack(_)
Pack(b) ==
  IF b = <<>> THEN <<>>
  ELSE IF Len(b) >= 2 /\ b[1] = b[2] /\ b[1] < 128
       THEN <<b[1] + 128>> \o Pack(SubSeq(b, 3, Len(b)))
       ELSE <<b[1]>> \o Pack(Tail(b))

\* The decoder of that codec (the reader's side, lzo1x_decompress).
RECURSIVE Unpack(_)
Unpack(c) ==
  IF c = <<>> THEN <<>>
  ELSE (IF c[1] >= 128 THEN <<c[1] - 128, c[1] - 128>> ELSE <<c[1]>>)
       \o Unpack(Tail(c))

\* The worst case lzo documents for a block of n bytes.
WorstCase(n) == n + n \div 16 + 64 + 3

\* A LZOCompress call goes wrong when calloc returns NULL ("calloc") or the
\* compressor fails on the at-th block with an error code ("error") or an
\* oversized result ("oversized").
NoFault == [kind |-> "none", at |-> 0]

\* One compressor call: r = 0 is LZO_E_OK.
compress(block, fault) ==
  IF fault = "error" THEN [r |-> -1, out |-> <<>>]
  ELSE IF fault = "oversized"
       THEN [r |-> 0, out |-> [i \in 1..(WorstCase(Len(block)) + 1) |-> 0]]
       ELSE [r |-> 0, out |-> Pack(block)]

\* ------------------------------------------------------------------- framer
\* blocks == 0 runs the loop body once, otherwise once per whole block.
Iterations(blocks) == IF blocks = 0 THEN 1 ELSE blocks

\* The length of the i-th block (0-based), "a little bigger" for the last.
BlockLen(i, blocks, total_data_length, length) ==
  LET data_len == IF blocks = 0 THEN total_data_length ELSE lzo_block_size
  IN  IF i = blocks THEN data_len + (length - total_data_length) ELSE data_len

\* "this should never occur"
CompressFailed(c, block_data) ==
  c.r # 0 \/ Len(c.out) > WorstCase(Len(block_data))

\* The test below with <= for <: a block that compresses to its own length
\* would be framed as compressed.
UsefulOrEqual(out_len, block_len) == out_len <= block_len

\* "only if compression was useful (resulted in a smaller data set)"
Useful(out_len, block_len) == out_len < block_len

\* The integers below with both block checksums seeded at 0.
FrameFieldsSeededAt0(block_data, out) ==
  IF Useful(Len(out), Len(block_data))
  THEN Int32Bytes(Len(block_data)) \o Int32Bytes(Len(out))
       \o Word32Bytes(lzo_adler32(<<0, 0>>, block_data))
       \o Word32Bytes(lzo_adler32(<<0, 0>>, out))
  ELSE Int32Bytes(Len(block_data)) \o Int32Bytes(Len(block_data))

\* The integers one block appends with LZOStringAppendInt32.
FrameFields(block_data, out) ==
  IF Useful(Len(out), Len(block_data))
  THEN Int32Bytes(Len(block_data)) \o Int32Bytes(Len(out))
       \o Word32Bytes(lzo_adler32(ADLER32_INIT, block_data))
       \o Word32Bytes(lzo_adler32(ADLER32_INIT, out))
  ELSE Int32Bytes(Len(block_data)) \o Int32Bytes(Len(block_data))

\* The bytes one block appends after its integers.
FramePayload(block_data, out) ==
  IF Useful(Len(out), Len(block_data)) THEN out ELSE block_data

\* The loop over the blocks from iteration i on: acc is compressedData, ck is
\* lzo_checksum, seen the blocks framed so far with what the compressor made
\* of them.
RECURSIVE CompressBlocks(_, _, _, _, _, _, _)
CompressBlocks(data, blocks, i, acc, ck, fault, seen) ==
  IF i >= Iterations(blocks)
  THEN [ok |-> TRUE, out |-> acc, ck |-> ck, seen |-> seen]
  ELSE
    LET total      == IF blocks = 0 THEN Len(data) ELSE blocks * lzo_block_size
        offset     == i * lzo_block_size
        data_len   == BlockLen(i, blocks, total, Len(data))
        block_data == substr(data, offset, data_len)
        c          == compress(block_data,
                               IF fault.at = i + 1 THEN fault.kind ELSE "none")
        fields     == FrameFields(block_data, c.out)
    IN  IF CompressFailed(c, block_data)
        THEN [ok |-> FALSE, out |-> acc, ck |-> ck, seen |-> seen]
        ELSE CompressBlocks(data, blocks, i + 1,
                            acc \o fields \o FramePayload(block_data, c.out),
                            lzo_adler32(ck, fields), fault,
                            Append(seen, [block |-> block_data, out |-> c.out]))

\* The test below queueing a whole block as well.
QueuesUpTo(data, force) == Len(data) <= lzo_block_size /\ ~force

\* The bound below which a non-forced call queues its data.
Queues(data, force) == Len(data) < lzo_block_size /\ ~force

\* HdfsFile::LZOCompress(inputData, force, success) on backlog
\* LZObacklogBuffer and checksum lzo_checksum.  ret is the returned string;
\* consumed says the call went past the queueing test; data is the string it
\* worked on; seen the blocks it framed; faulted whether the fault happened.
LZOCompress(backlog, ck, inputData, force, fault) ==
  LET data   == IF Len(backlog) > 0 THEN backlog \o CStr(inputData)
                                    ELSE CStr(inputData)
      blocks == Len(data) \div lzo_block_size
      loop   == CompressBlocks(data, blocks, 0, <<>>, ck, fault, <<>>)
  IN  IF Queues(data, force)
      THEN [ret |-> inputData, success |-> TRUE, backlog |-> data, ck |-> ck,
            consumed |-> FALSE, data |-> data, seen |-> <<>>, faulted |-> FALSE]
      ELSE IF fault.kind = "calloc"
      THEN [ret |-> data, success |-> FALSE, backlog |-> <<>>, ck |-> ck,
            consumed |-> TRUE, data |-> data, seen |-> <<>>, faulted |-> TRUE]
      ELSE IF ~loop.ok
      THEN [ret |-> data, success |-> FALSE, backlog |-> <<>>, ck |-> loop.ck,
            consumed |-> TRUE, data |-> data, seen |-> loop.seen,
            faulted |-> TRUE]
      ELSE [ret |-> loop.out, success |-> TRUE, backlog |-> <<>>,
            ck |-> loop.ck, consumed |-> TRUE, data |-> data,
            seen |-> loop.seen, faulted |-> FALSE]

\* ----------------------------------------------------------------- the state
VARIABLES
  fileSys,               \* the connection: TRUE when connectToPath succeeded
  hfile,                 \* the handle: "none" (0), or how it was opened
  LZOCompressionLevel,
  LZObacklogBuffer,
  lzo_checksum,
  exists,                \* the sink: whether the named file exists
  log,                   \* the sink: the hdfsWrite calls made on the file
  faults,                \* library failures so far
  ops,                   \* calls so far
  given,                 \* bytes handed to write() so far
  calls,                 \* the calls so far: what was called, with what,
                         \* at which level, and how it opened the file
  last                   \* what the last call was given, found and returned

vars == << fileSys, hfile, LZOCompressionLevel, LZObacklogBuffer, lzo_checksum,
           exists, log, faults, ops, given, calls, last >>

\* The strings a write() call may still be given.
DataInputs == SeqsUpTo(Bytes, MaxBytes - given)

\* The program and sink state as one record, for the operations below.
Here == [fileSys |-> fileSys, hfile |-> hfile, level |-> LZOCompressionLevel,
         backlog |-> LZObacklogBuffer, ck |-> lzo_checksum, exists |-> exists,
         log |-> log, faults |-> faults]

\* ------------------------------------------------------------------ the sink
Writable(h) == h \in {"write", "append"}

\* What hdfsWrite returns for n bytes: all of them, or fewer (-1 for none)
\* when the write falls short or the handle is not one to write on.
Acked(h, n, short) ==
  IF ~Writable(h) THEN -1
  ELSE IF ~short THEN n
  ELSE IF n = 0 THEN -1 ELSE n - 1

\* hdfsWrite(fileSys, hfile, buf, len) from the call site named by site.
hdfsWrite(s, site, buf, short) ==
  LET n == Acked(s.hfile, Len(buf), short)
  IN  [s   |-> [s EXCEPT !.log = Append(@, [site |-> site, buf |-> buf, n |-> n]),
                         !.faults = @ + (IF short /\ Writable(s.hfile) THEN 1 ELSE 0)],
       ret |-> n]

\* hdfsOpenFile(fileSys, filename, flags): 0 when it fails; O_WRONLY creates
\* the file, O_RDONLY needs it to exist.
hdfsOpenFile(s, mode, openOk) ==
  IF ~openOk THEN [s EXCEPT !.hfile = "none", !.faults = @ + 1]
  ELSE IF mode = "read"
       THEN [s EXCEPT !.hfile = IF s.exists THEN "read" ELSE "none"]
  ELSE IF mode = "write"
       THEN [s EXCEPT !.hfile = "write", !.exists = TRUE, !.log = <<>>]
       ELSE [s EXCEPT !.hfile = "append"]

\* hdfsDelete(fileSys, filename): a handle still open on the file is left
\* without a file to write on.
hdfsDelete(s) ==
  [s EXCEPT !.exists = FALSE, !.log = <<>>,
            !.hfile = IF @ = "none" THEN "none" ELSE "stale"]

\* The bytes the file holds: what each call had acknowledged.
RECURSIVE Stored(_)
Stored(l) ==
  IF l = <<>> THEN <<>>
  ELSE (IF Head(l).n > 0 THEN SubSeq(Head(l).buf, 1, Head(l).n) ELSE <<>>)
       \o Stored(Tail(l))

\* ---------------------------------------------------------------- the header
\* The bytes openWrite puts after the magic, each fed to lzo_checksum.
HeaderFields(level) ==
  Int16Bytes(LZOP_VERSION % 65536) \o Int16Bytes(lzo_version % 65536)
  \o Int16Bytes(lzop_version_needed_to_extract)
  \o <<lzo_method % 256>> \o <<level % 256>> \o Int32Bytes(lzo_flags)
  \o Int32Bytes(FileMode) \o Int32Bytes(0) \o Int32Bytes(0)
  \o <<Len(baseFile) % 256>> \o baseFile

lzo_header(level) ==
  lzop_magic \o HeaderFields(level)
  \o Word32Bytes(lzo_adler32(ADLER32_INIT, HeaderFields(level)))

\* lzo_checksum once the header is built: the checksum field is appended with
\* LZOStringAppendInt32 and so is folded in as well.
HeaderChecksum(level) ==
  lzo_adler32(lzo_adler32(ADLER32_INIT, HeaderFields(level)),
              Word32Bytes(lzo_adler32(ADLER32_INIT, HeaderFields(level))))

\* The headers of the levels in use, built once.
Headers == [level \in Levels |-> lzo_header(level)]
HeaderChecksums == [level \in Levels |-> HeaderChecksum(level)]

\* -------------------------------------------------------------- operations
\* Each takes the state record and the outcomes of the library calls it makes
\* and yields the state after, the value returned and a note of the path taken.

\* The test below asking for a handle that was opened for writing.
isOpenForWrite(s) == Writable(s.hfile)

\* HdfsFile::isOpen
isOpen(s) == s.hfile # "none"

\* The test below taking any bytes written for success.
SomeWritten(bytesWritten, length) == bytesWritten > 0 \/ length = 0

\* The result of a write, from what hdfsWrite acknowledged.
AllWritten(bytesWritten, length) == bytesWritten = length

\* HdfsFile::openWrite
openWriteOp(s, openOk, short) ==
  IF ~s.fileSys THEN [s |-> s, ret |-> FALSE, opened |-> "no"]
  ELSE IF isOpen(s) THEN [s |-> s, ret |-> FALSE, opened |-> "no"]
  ELSE
    LET append == s.exists
        s1 == IF append /\ s.level # 0 THEN [s EXCEPT !.level = 0] ELSE s
        s2 == hdfsOpenFile(s1, IF append THEN "append" ELSE "write", openOk)
        w  == hdfsWrite(s2, "header", Headers[s2.level], short)
    IN  IF ~isOpen(s2) THEN [s |-> s2, ret |-> FALSE, opened |-> "failed"]
        ELSE IF append THEN [s |-> s2, ret |-> TRUE, opened |-> "append"]
        ELSE IF s2.level # 0
             THEN [s |-> [w.s EXCEPT !.ck = HeaderChecksums[s2.level],
                                     !.backlog = <<>>],
                   ret |-> TRUE, opened |-> "write"]
             ELSE [s |-> s2, ret |-> TRUE, opened |-> "write"]

\* The delete below without the test of the connection.
deleteFileUnguarded(s) == hdfsDelete(s)

\* HdfsFile::deleteFile
deleteFileOp(s) == IF s.fileSys THEN hdfsDelete(s) ELSE s

\* HdfsFile::openTruncate
openTruncateOp(s, openOk, short) == openWriteOp(deleteFileOp(s), openOk, short)

\* HdfsFile::openRead
openReadOp(s, openOk) ==
  LET s1 == IF s.fileSys THEN hdfsOpenFile(s, "read", openOk) ELSE s
  IN  [s |-> s1, ret |-> isOpen(s1)]

\* The setter below keeping the level it was given when lzo_init() fails.
setShouldLZOCompressKeep(s, compressionLevel, initOk) ==
  [s EXCEPT !.level = compressionLevel,
            !.faults = @ + (IF initOk THEN 0 ELSE 1)]

\* HdfsFile::setShouldLZOCompress, initOk saying lzo_init() == LZO_E_OK.
setShouldLZOCompressOp(s, compressionLevel, initOk) ==
  IF initOk THEN [s EXCEPT !.level = compressionLevel]
  ELSE [s EXCEPT !.level = 0, !.faults = @ + 1]

NoFrame == [called |-> FALSE, consumed |-> FALSE, success |-> FALSE,
            data |-> <<>>, ret |-> <<>>, seen |-> <<>>]

FrameNote(f) == [called |-> TRUE, consumed |-> f.consumed, success |-> f.success,
                 data |-> f.data, ret |-> f.ret, seen |-> f.seen]

\* The write below handing over the C string of data, as LZOCompress takes it.
plainWriteCStr(s, data, short) == hdfsWrite(s, "plain", CStr(data), short)

\* "normal unbuffered/compressed write": data.data() with data.length().
plainWrite(s, data, short) == hdfsWrite(s, "plain", data, short)

\* The instance once LZOCompress has returned f: the backlog and the checksum
\* are the ones it left.
afterLZOCompress(s, f) ==
  [s EXCEPT !.backlog = f.backlog, !.ck = f.ck,
            !.faults = @ + (IF f.faulted THEN 1 ELSE 0)]

\* The compressed branch of HdfsFile::write, f being what LZOCompress(data,
\* false, &success) returned and s the instance after that call.
writeCompressed(s, data, f, short) ==
  LET wc == hdfsWrite(s, "frames", f.ret, short)
      wr == hdfsWrite(s, "fallback", data, short)
  IN  IF f.ret # data /\ f.success
      THEN [s |-> wc.s, ret |-> AllWritten(wc.ret, Len(f.ret)), fr |-> FrameNote(f)]
      ELSE IF ~f.success
      THEN [s |-> wr.s, ret |-> AllWritten(wr.ret, Len(data)), fr |-> FrameNote(f)]
      ELSE [s |-> s, ret |-> f.success, fr |-> FrameNote(f)]

\* The part of HdfsFile::write after the handle is known to be open; o is
\* how it came to be open.
writeOpen(o, data, f, short) ==
  IF o.s.level # 0
  THEN writeCompressed(afterLZOCompress(o.s, f), data, f, short)
  ELSE LET w == plainWrite(o.s, data, short)
       IN  [s |-> w.s, ret |-> AllWritten(w.ret, Len(data)), fr |-> NoFrame]

\* HdfsFile::write from the opening of the handle on.
writeFrom(o, data, w) ==
  IF ~o.ret
  THEN [s |-> o.s, ret |-> FALSE, fr |-> NoFrame, opened |-> o.opened,
        at |-> o.s, handled |-> FALSE]
  ELSE [s |-> w.s, ret |-> w.ret, fr |-> w.fr, opened |-> o.opened,
        at |-> o.s, handled |-> TRUE]

\* The handle write() works on: the one already open, or the one it opens.
writeHandle(s, openOk, hshort) ==
  IF isOpen(s) THEN [s |-> s, ret |-> TRUE, opened |-> "no"]
  ELSE openWriteOp(s, openOk, hshort)

\* HdfsFile::write
writeOp(o, data, fault, short) ==
  writeFrom(o, data,
            writeOpen(o, data,
                      LZOCompress(o.s.backlog, o.s.ck, data, FALSE, fault),
                      short))

\* The compressed branch of HdfsFile::close, f being what LZOCompress("",
\* true, &good) returned and s the instance after that call.
closeCompressed(s, f, short1, short2) ==
  LET s2 == IF f.success THEN hdfsWrite(s, "flush", f.ret, short1).s ELSE s
      s3 == hdfsWrite(s2, "eof", Int32Bytes(0), short2).s
  IN  [s |-> [s3 EXCEPT !.hfile = "none"], fr |-> FrameNote(f)]

\* The close below without the test of the handle.
closeUnguarded(s, fault, short1, short2) ==
  IF ~s.fileSys THEN [s |-> s, fr |-> NoFrame]
  ELSE IF s.level # 0
  THEN closeCompressed(
         afterLZOCompress(s, LZOCompress(s.backlog, s.ck, <<>>, TRUE, fault)),
         LZOCompress(s.backlog, s.ck, <<>>, TRUE, fault), short1, short2)
  ELSE [s |-> [s EXCEPT !.hfile = "none"], fr |-> NoFrame]

\* HdfsFile::close
closeOp(s, fault, short1, short2) ==
  IF ~s.fileSys THEN [s |-> s, fr |-> NoFrame]
  ELSE IF ~isOpen(s) THEN [s |-> [s EXCEPT !.hfile = "none"], fr |-> NoFrame]
  ELSE IF s.level # 0
  THEN closeCompressed(
         afterLZOCompress(s, LZOCompress(s.backlog, s.ck, <<>>, TRUE, fault)),
         LZOCompress(s.backlog, s.ck, <<>>, TRUE, fault), short1, short2)
  ELSE [s |-> [s EXCEPT !.hfile = "none"], fr |-> NoFrame]

\* ------------------------------------------------------- the state machine
Note(op, data, level, ret, opened, at, fr) ==
  [op |-> op, data |-> data, level |-> level, ret |-> ret, opened |-> opened,
   pre |-> Here, at |-> at, fr |-> fr]

\* The state after a call: s is the program and sink state it leaves.
Install(s, note) ==
  /\ s.faults <= MaxFaults
  /\ given' = given + Len(note.data)
  /\ calls' = Append(calls, [op |-> note.op, data |-> note.data,
                             ret |-> note.ret, level |-> LZOCompressionLevel,
                             opened |-> note.opened])
  /\ fileSys' = s.fileSys
  /\ hfile' = s.hfile
  /\ LZOCompressionLevel' = s.level
  /\ LZObacklogBuffer' = s.backlog
  /\ lzo_checksum' = s.ck
  /\ exists' = s.exists
  /\ log' = s.log
  /\ faults' = s.faults
  /\ ops' = ops + 1
  /\ last' = note

\* HdfsFile::HdfsFile: the connection may fail; the level and the checksum
\* are not set by the constructor; the file may be there already.
Init ==
  /\ fileSys \in BOOLEAN
  /\ hfile = "none"
  /\ LZOCompressionLevel \in Levels
  /\ LZObacklogBuffer = <<>>
  /\ lzo_checksum = Indeterminate
  /\ exists \in BOOLEAN
  /\ log = <<>>
  /\ faults = IF fileSys THEN 0 ELSE 1
  /\ ops = 0
  /\ given = 0
  /\ calls = <<>>
  /\ last = [op |-> "new", data |-> <<>>, level |-> 0, ret |-> TRUE,
             opened |-> "no",
             pre |-> [fileSys |-> fileSys, hfile |-> "none",
                      level |-> LZOCompressionLevel, backlog |-> <<>>,
                      ck |-> lzo_checksum, exists |-> exists, log |-> <<>>,
                      faults |-> IF fileSys THEN 0 ELSE 1],
             at |-> [fileSys |-> fileSys, hfile |-> "none",
                     level |-> LZOCompressionLevel, backlog |-> <<>>,
                     ck |-> lzo_checksum, exists |-> exists, log |-> <<>>,
                     faults |-> IF fileSys THEN 0 ELSE 1],
             fr |-> NoFrame]

\* The library calls that may fail in a call on the instance: lzo_init,
\* hdfsOpenFile, the hdfsWrite of the header, calloc, the compressor on the
\* first or second block (by code or by size), and the hdfsWrite of write(),
\* of the flush and of the terminator.
FaultMenu(op) ==
  IF op = "setShouldLZOCompress" THEN {"init"}
  ELSE IF op = "openRead" THEN {"open"}
  ELSE IF op \in {"openWrite", "openTruncate"} THEN {"open", "header"}
  ELSE IF op = "write"
       THEN {"open", "header", "calloc", "error1", "oversized1", "error2",
             "oversized2", "write"}
       ELSE {"calloc", "error1", "oversized1", "error2", "oversized2",
             "flush", "eof"}

\* The failures one call may meet: as many as the behaviour has left.
RECURSIVE SubsetsUpTo(_, _)
SubsetsUpTo(S, k) ==
  IF k <= 0 THEN {{}}
  ELSE LET P == SubsetsUpTo(S, k - 1)
       IN  P \cup {p \cup {x} : p \in P, x \in S}

FaultSets(op) == SubsetsUpTo(FaultMenu(op), MaxFaults - faults)

\* A behaviour makes MaxOps calls.
MayCall == ops < MaxOps

\* The first compressor failure among F.
CompressFault(F) ==
  IF "calloc" \in F THEN [kind |-> "calloc", at |-> 0]
  ELSE IF "error1" \in F THEN [kind |-> "error", at |-> 1]
  ELSE IF "oversized1" \in F THEN [kind |-> "oversized", at |-> 1]
  ELSE IF "error2" \in F THEN [kind |-> "error", at |-> 2]
  ELSE IF "oversized2" \in F THEN [kind |-> "oversized", at |-> 2]
  ELSE NoFault

SetShouldLZOCompress ==
  /\ MayCall
  /\ \E level \in Levels, F \in FaultSets("setShouldLZOCompress") :
       Install(setShouldLZOCompressOp(Here, level, "init" \notin F),
               Note("setShouldLZOCompress", <<>>, level, TRUE, "no", Here, NoFrame))

OpenWrite ==
  /\ MayCall
  /\ \E F \in FaultSets("openWrite") :
       \E r \in {openWriteOp(Here, "open" \notin F, "header" \in F)} :
           Install(r.s, Note("openWrite", <<>>, 0, r.ret, r.opened, Here, NoFrame))

OpenTruncate ==
  /\ MayCall
  /\ \E F \in FaultSets("openTruncate") :
       \E r \in {openTruncateOp(Here, "open" \notin F, "header" \in F)} :
           Install(r.s, Note("openTruncate", <<>>, 0, r.ret, r.opened, Here, NoFrame))

OpenRead ==
  /\ MayCall
  /\ \E F \in FaultSets("openRead") :
       \E r \in {openReadOp(Here, "open" \notin F)} :
           Install(r.s, Note("openRead", <<>>, 0, r.ret, "no", Here, NoFrame))

\* HdfsFile::deleteFile called on its own: it returns nothing and no library
\* result is looked at.
DeleteFile ==
  /\ MayCall
  /\ \E s \in {deleteFileOp(Here)} :
       Install(s, Note("deleteFile", <<>>, 0, TRUE, "no", Here, NoFrame))

\* last.data is the string write() went on to handle: none when it returned
\* before looking at it.
Write ==
  /\ MayCall
  /\ \E data \in DataInputs, F \in FaultSets("write") :
       \E r \in {writeOp(writeHandle(Here, "open" \notin F, "header" \in F),
                           data, CompressFault(F), "write" \in F)} :
           Install(r.s, Note("write", IF r.handled THEN data ELSE <<>>, 0, r.ret,
                             r.opened, r.at, r.fr))

Close ==
  /\ MayCall
  /\ \E F \in FaultSets("close") :
       \E r \in {closeOp(Here, CompressFault(F), "flush" \in F, "eof" \in F)} :
           Install(r.s, Note("close", <<>>, 0, TRUE, "no", Here, r.fr))

Next ==
  \/ SetShouldLZOCompress
  \/ OpenWrite
  \/ OpenTruncate
  \/ OpenRead
  \/ DeleteFile
  \/ Write
  \/ Close

Spec == Init /\ [][Next]_vars

\* ------------------------------------------------------------------ reading
\* What a reader of the format makes of bytes written by the framer.

\* The 32-bit big-endian field at 1-based position i, as high and low half.
Field(b, i) == << b[i] * 256 + b[i + 1], b[i + 2] * 256 + b[i + 3] >>

Bad == [variant |-> "bad"]

\* The frames in b, front to back: a frame whose second length equals the
\* first is a raw block, any other carries two checksums and compressed bytes.
RECURSIVE Frames(_)
Frames(b) ==
  IF b = <<>> THEN <<>>
  ELSE IF Len(b) < 8 THEN <<Bad>>
  ELSE
    LET ulen == Field(b, 1)
        clen == Field(b, 5)
    IN  IF ulen[1] # 0 \/ clen[1] # 0 THEN <<Bad>>
        ELSE IF clen = ulen
        THEN IF Len(b) < 8 + ulen[2] THEN <<Bad>>
             ELSE << [variant |-> "b", ulen |-> ulen[2], clen |-> clen[2],
                      bytes |-> SubSeq(b, 9, 8 + ulen[2])] >>
                  \o Frames(SubSeq(b, 9 + ulen[2], Len(b)))
        ELSE IF Len(b) < 16 + clen[2] THEN <<Bad>>
             ELSE << [variant |-> "a", ulen |-> ulen[2], clen |-> clen[2],
                      dsum |-> Field(b, 9), csum |-> Field(b, 13),
                      bytes |-> SubSeq(b, 17, 16 + clen[2])] >>
                  \o Frames(SubSeq(b, 17 + clen[2], Len(b)))

WellFramed(b) == \A i \in 1..Len(Frames(b)) : Frames(b)[i].variant # "bad"

\* The block a frame stands for.
Payload(f) == IF f.variant = "a" THEN Unpack(f.bytes) ELSE f.bytes

RECURSIVE Payloads(_)
Payloads(fs) == IF fs = <<>> THEN <<>> ELSE Payload(Head(fs)) \o Payloads(Tail(fs))

\* The entries of a log made by the framer: write()'s frames and close()'s flush.
IsData(e) == e.site \in {"frames", "flush"}

\* The blocks the data frames of a log carry, in order.
RECURSIVE Delivered(_)
Delivered(l) ==
  IF l = <<>> THEN <<>>
  ELSE (IF IsData(Head(l)) THEN Payloads(Frames(Head(l).buf)) ELSE <<>>)
       \o Delivered(Tail(l))

\* The strings of the write() calls among cs, one after the other.
RECURSIVE Given(_)
Given(cs) ==
  IF cs = <<>> THEN <<>>
  ELSE (IF Head(cs).op = "write" THEN Head(cs).data ELSE <<>>) \o Given(Tail(cs))

Count(l, P(_)) == Cardinality({i \in 1..Len(l) : P(l[i])})

IsEof(e) == e.site = "eof"
IsHeader(e) == e.site = "header"
IsWriteCall(c) == c.op = "write"

Terminator == <<0, 0, 0, 0>>

\* A behaviour that writes one fresh compressed stream and closes it, with no
\* failure: the file was not there, the first call created it with a header,
\* every call before the last is a write() and the last is close().
FreshStreamClosed ==
  /\ faults = 0
  /\ Len(calls) >= 2
  /\ calls[Len(calls)].op = "close"
  /\ \A i \in 1..(Len(calls) - 1) : calls[i].op = "write" /\ calls[i].ret
  /\ log # <<>> /\ IsHeader(log[1])

\* The hdfsWrite calls of the last call on the instance, for a log that the
\* call only appended to.
NewEntries(before) == SubSeq(log, Len(before) + 1, Len(log))
Extends(before) ==
  Len(log) >= Len(before) /\ SubSeq(log, 1, Len(before)) = before

\* The bytes the calls of a log handed to the sink, the terminator aside.
RECURSIVE Handed(_)
Handed(l) ==
  IF l = <<>> THEN <<>>
  ELSE (IF IsEof(Head(l)) THEN <<>> ELSE Head(l).buf) \o Handed(Tail(l))

\* The write() calls since an openWrite found the file there while the level
\* was not 0, with nothing but setShouldLZOCompress calls in between.
InForcedAppendSession ==
  \E k \in 1..(Len(calls) - 1) :
    /\ calls[k].op = "openWrite" /\ calls[k].ret
    /\ calls[k].opened = "append" /\ calls[k].level # 0
    /\ \A j \in (k + 1)..Len(calls) :
         calls[j].op \in {"write", "setShouldLZOCompress"}
    /\ calls[Len(calls)].op = "write"

\* ------------------------------------------------------------------- claims

\* C1: round-trip integrity.  After a fresh compression-enabled stream is
\* written in one or more write() calls and closed, with no failure, the
\* payloads of the data frames the sink received, decoded and concatenated in
\* order, are exactly the bytes the calls were given.
C1_RoundTrip ==
  FreshStreamClosed => Delivered(log) = Given(calls)

\* C2: threshold buffering.  A write() on an open writer with compression
\* enabled, for which backlog + data is shorter than the block size, makes no
\* hdfsWrite call, keeps backlog + data as the new backlog and returns success.
C2_ThresholdBuffering ==
  ( /\ last.op = "write"
    /\ isOpen(last.pre)
    /\ last.pre.level # 0
    /\ Len(last.pre.backlog \o last.data) < lzo_block_size )
  => /\ log = last.pre.log
     /\ LZObacklogBuffer = last.pre.backlog \o last.data
     /\ last.ret = TRUE

\* C3: terminator placement.  close() on an open writer with compression
\* enabled writes the force-flushed backlog (frames that carry exactly the
\* backlog), then one 4-byte zero terminator, then closes the handle; the
\* stream holds one terminator.
C3_TerminatorPlacement ==
  ( /\ last.op = "close"
    /\ Writable(last.pre.hfile)
    /\ last.pre.level # 0 )
  => LET new == NewEntries(last.pre.log)
     IN  /\ Extends(last.pre.log)
         /\ new # <<>>
         /\ new[Len(new)].site = "eof"
         /\ new[Len(new)].buf = Terminator
         /\ \A i \in 1..(Len(new) - 1) :
              new[i].site = "flush" /\ WellFramed(new[i].buf)
         /\ Delivered(new) = last.pre.backlog
         /\ Count(log, IsEof) = 1
         /\ hfile = "none"

\* C4: header invariant.  In every reachable state a stream that holds a
\* data frame has the stream header written once, as the first write on it,
\* before the first data frame.
C4_HeaderInvariant ==
  (\E i \in 1..Len(log) : IsData(log[i]) /\ log[i].n > 0)
  => /\ IsHeader(log[1])
     /\ Count(log, IsHeader) = 1

\* C5: per-block frame variant.  Every block the framer emits is framed as
\* variant (a), both lengths, both checksums and the compressed bytes, exactly
\* when the compressed length is below the block length, and otherwise as
\* variant (b), the block length twice and the raw block; block by block.
C5_FrameVariant ==
  (last.fr.called /\ last.fr.consumed /\ last.fr.success)
  => LET fs == Frames(last.fr.ret)
         seen == last.fr.seen
     IN  /\ Len(fs) = Len(seen)
         /\ \A i \in 1..Len(seen) :
              IF Len(seen[i].out) < Len(seen[i].block)
              THEN /\ fs[i].variant = "a"
                   /\ fs[i].ulen = Len(seen[i].block)
                   /\ fs[i].clen = Len(seen[i].out)
                   /\ fs[i].bytes = seen[i].out
              ELSE /\ fs[i].variant = "b"
                   /\ fs[i].ulen = Len(seen[i].block)
                   /\ fs[i].clen = fs[i].ulen
                   /\ fs[i].bytes = seen[i].block

\* A call framed two blocks, one compressed and one raw.
C5_Witness ==
  /\ last.fr.called /\ last.fr.consumed /\ last.fr.success
  /\ \E i, j \in 1..Len(last.fr.seen) :
       /\ Len(last.fr.seen[i].out) < Len(last.fr.seen[i].block)
       /\ Len(last.fr.seen[j].out) >= Len(last.fr.seen[j].block)
       /\ Len(last.fr.seen[j].block) = lzo_block_size

\* C6: algorithm failure loses no data.  When the compressor fails in
\* write() or in the force flush of close(), the bytes of the backlog together
\* with the call's data are all handed to the sink as the raw fallback.
C6_FailureLosesNoData ==
  (last.op \in {"write", "close"} /\ last.fr.called /\ ~last.fr.success)
  => /\ Extends(last.at.log)
     /\ Handed(NewEntries(last.at.log)) = last.at.backlog \o last.data

\* C7: partial write in write().  When the framer consumes backlog + data,
\* write() hands the framed output to the sink in one hdfsWrite and returns
\* true exactly when every byte was acknowledged.
C7_PartialWrite ==
  (last.op = "write" /\ last.fr.called /\ last.fr.consumed /\ last.fr.success)
  => /\ log = Append(last.at.log, log[Len(log)])
     /\ log[Len(log)].site = "frames"
     /\ log[Len(log)].buf = last.fr.ret
     /\ log[Len(log)].buf # <<>>
     /\ WellFramed(log[Len(log)].buf)
     /\ last.ret = (log[Len(log)].n = Len(log[Len(log)].buf))

\* A write() whose frames the sink acknowledged short of one byte.
C7_Witness ==
  /\ last.op = "write" /\ last.fr.consumed /\ last.fr.success
  /\ Writable(hfile)
  /\ log[Len(log)].n = Len(log[Len(log)].buf) - 1
  /\ last.ret = FALSE

\* C8: append disables compression.  An openWrite that succeeds on a name
\* that exists, with a nonzero level set, leaves the handle in append mode and
\* the level 0 and writes no header; every write() of that session hands the
\* caller's bytes to the sink unframed.
C8_AppendDisablesCompression ==
  /\ ( /\ last.op = "openWrite" /\ last.ret
       /\ last.pre.exists /\ last.pre.level # 0 )
     => /\ hfile = "append"
        /\ LZOCompressionLevel = 0
        /\ log = last.pre.log
  /\ InForcedAppendSession
     => /\ Extends(last.pre.log)
        /\ Handed(NewEntries(last.pre.log)) = last.data
        /\ \A i \in 1..Len(NewEntries(last.pre.log)) :
             NewEntries(last.pre.log)[i].site = "plain"

\* C9: frame count.  n >= 1 write() calls of block_size bytes each on a
\* fresh compression-enabled stream, then close(): the sink receives the
\* header, n data frames, frame i carrying the bytes of call i, and one
\* terminator, and nothing else.
C9_FrameCount ==
  ( /\ FreshStreamClosed
    /\ \A i \in 1..(Len(calls) - 1) : Len(calls[i].data) = lzo_block_size )
  => LET n == Len(calls) - 1
     IN  /\ Len(log) = n + 2
         /\ \A i \in 1..n :
              /\ log[i + 1].site = "frames"
              /\ Len(Frames(log[i + 1].buf)) = 1
              /\ Payloads(Frames(log[i + 1].buf)) = calls[i].data
         /\ log[n + 2].site = "eof"
         /\ log[n + 2].buf = Terminator

\* C10: disabled passthrough.  With level 0 a write() on an open writer
\* hands exactly the caller's bytes to the sink in one hdfsWrite, leaves the
\* backlog as it was, and returns true exactly when every byte was
\* acknowledged.
C10_DisabledPassthrough ==
  (last.op = "write" /\ isOpen(last.pre) /\ last.pre.level = 0)
  => /\ log = Append(last.pre.log, log[Len(log)])
     /\ log[Len(log)].buf = last.data
     /\ LZObacklogBuffer = last.pre.backlog
     /\ last.ret = (log[Len(log)].n = Len(last.data))

\* A write() at level 0 of bytes with a NUL among them, all acknowledged,
\* while bytes are queued in the backlog.
C10_Witness ==
  /\ last.op = "write" /\ isOpen(last.pre) /\ last.pre.level = 0
  /\ \E i \in 1..Len(last.data) : last.data[i] = 0 /\ i < Len(last.data)
  /\ last.ret = TRUE
  /\ LZObacklogBuffer # <<>>

\* C11: AlreadyOpenForWrite.  openWrite on an instance whose handle is
\* already open (however it was opened) returns false and leaves the handle,
\* its mode, the level, the backlog, the checksum and the stored stream as
\* they were: the file is not looked up and no header is written.
C11_AlreadyOpen ==
  (last.op = "openWrite" /\ last.pre.hfile # "none")
  => /\ ~last.ret
     /\ last.opened = "no"
     /\ Here = last.pre

\* openWrite was called on an open compressed writer holding a backlog.
C11_Witness ==
  /\ last.op = "openWrite"
  /\ last.pre.hfile = "write"
  /\ last.pre.level # 0
  /\ last.pre.backlog # <<>>
  /\ ~last.ret

\* C12: ConnectionUnavailable is terminal.  On an instance whose connection
\* was not established (fileSys is 0), every call leaves the connection
\* missing and the handle closed, makes no open, write, delete or close on the
\* sink (the file and what it holds are as before), openRead, openWrite,
\* openTruncate and write return false, and close changes nothing.
C12_ConnectionUnavailable ==
  ~last.pre.fileSys
  => /\ ~fileSys
     /\ hfile = "none"
     /\ log = last.pre.log
     /\ exists = last.pre.exists
     /\ (last.op \in {"openRead", "openWrite", "openTruncate", "write"}
           => ~last.ret)
     /\ (last.op = "close" => Here = last.pre)

\* Three calls were made on an instance with no connection, the last an
\* openTruncate of a file that is there.
C12_Witness ==
  /\ ~fileSys
  /\ exists
  /\ Len(calls) = MaxOps
  /\ last.op = "openTruncate"
  /\ \E i \in 1..Len(calls) : calls[i].op = "write"

\* C13: setShouldLZOCompress changes the level and nothing else.  After the
\* call the level is the argument when lzo_init() succeeded and 0 when it
\* failed; the connection, the handle, the backlog, the checksum and the
\* stored stream are as before the call.
C13_SetLevel ==
  last.op = "setShouldLZOCompress"
  => /\ LZOCompressionLevel
          = (IF faults = last.pre.faults THEN last.level ELSE 0)
     /\ [Here EXCEPT !.level = 0, !.faults = 0]
          = [last.pre EXCEPT !.level = 0, !.faults = 0]

\* A nonzero level was asked for on an open writer holding a backlog while
\* lzo_init() failed.
C13_Witness ==
  /\ last.op = "setShouldLZOCompress"
  /\ last.level # 0
  /\ faults > last.pre.faults
  /\ LZOCompressionLevel = 0
  /\ hfile = "write"
  /\ LZObacklogBuffer # <<>>

\* The Adler-32 checksum of buf from the seed 1, by its sums: the low half is
\* 1 plus the bytes, the high half the sum of the low halves after each byte.
RECURSIVE ByteSum(_)
ByteSum(buf) == IF buf = <<>> THEN 0 ELSE Head(buf) + ByteSum(Tail(buf))

RECURSIVE PrefixSums(_)
PrefixSums(buf) ==
  IF buf = <<>> THEN 0
  ELSE 1 + ByteSum(buf) + PrefixSums(SubSeq(buf, 1, Len(buf) - 1))

Adler32From1(buf) == << PrefixSums(buf) % 65521, (1 + ByteSum(buf)) % 65521 >>

\* C14: checksum correctness.  In every frame of variant (a) the framer
\* emits, the uncompressed-checksum field is the Adler-32 checksum from the
\* seed 1 of the raw block and the compressed-checksum field the one of the
\* compressed bytes, whatever the running header checksum and the blocks
\* framed before.
C14_Checksums ==
  (last.fr.called /\ last.fr.consumed /\ last.fr.success)
  => LET fs   == Frames(last.fr.ret)
         seen == last.fr.seen
     IN  /\ Len(fs) = Len(seen)
         /\ \A i \in 1..Len(seen) :
              fs[i].variant = "a"
              => /\ fs[i].dsum = Adler32From1(seen[i].block)
                 /\ fs[i].csum = Adler32From1(seen[i].out)
                 /\ fs[i].csum = Adler32From1(fs[i].bytes)

\* A write() on a stream whose header checksum is set framed a raw block and
\* then a compressed one.
C14_Witness ==
  /\ last.op = "write" /\ last.fr.called /\ last.fr.success
  /\ last.at.ck # Indeterminate
  /\ Len(last.fr.seen) = 2
  /\ Frames(last.fr.ret)[1].variant = "b"
  /\ Frames(last.fr.ret)[2].variant = "a"

\* C15: block splitting.  When the framer consumes data of k whole blocks and
\* r further bytes, it emits k frames for k >= 1, the last one carrying
\* lzo_block_size + r bytes and the others lzo_block_size, and one frame with
\* all the data for k = 0; the blocks of the frames, in order, are the data.
C15_BlockSplitting ==
  (last.fr.called /\ last.fr.consumed /\ last.fr.success)
  => LET data == last.fr.data
         k    == Len(data) \div lzo_block_size
         r    == Len(data) % lzo_block_size
         fs   == Frames(last.fr.ret)
     IN  /\ WellFramed(last.fr.ret)
         /\ Len(fs) = (IF k = 0 THEN 1 ELSE k)
         /\ \A i \in 1..Len(fs) :
              Len(Payload(fs[i]))
                = (IF k = 0 THEN Len(data)
                   ELSE IF i < k THEN lzo_block_size ELSE lzo_block_size + r)
         /\ Payloads(fs) = data

\* C16: partial write of the header.  When openWrite creates a fresh
\* compression-enabled stream and the sink acknowledges fewer bytes than the
\* header holds, openWrite returns false.
C16_HeaderPartialWrite ==
  ( /\ last.op = "openWrite"
    /\ last.opened = "write"
    /\ log # <<>>
    /\ IsHeader(log[Len(log)])
    /\ log[Len(log)].n # Len(log[Len(log)].buf) )
  => ~last.ret

\* C17: nothing follows the terminator.  Once the four bytes of the
\* terminator are in a stream, no later call on the instance, a write() after
\* close() included, puts bytes after them.
C17_NothingAfterTerminator ==
  \A i \in 1..Len(log) :
    (IsEof(log[i]) /\ log[i].n = Len(Terminator))
    => \A j \in (i + 1)..Len(log) : log[j].n <= 0

\* C18: openTruncate on an open handle.  openTruncate on an instance whose
\* handle is already open returns false and changes nothing: the handle stays
\* open, the level and the backlog are as before, and the file is not deleted
\* and holds what it held.
C18_TruncateWhileOpen ==
  (last.op = "openTruncate" /\ last.pre.hfile # "none")
  => /\ ~last.ret
     /\ hfile # "none"
     /\ LZOCompressionLevel = last.pre.level
     /\ LZObacklogBuffer = last.pre.backlog
     /\ exists = last.pre.exists
     /\ log = last.pre.log

\* C19: close() with no open handle.  close() on an instance whose handle is
\* not open calls nothing on the sink and leaves the level, the backlog and
\* everything else as it was; a second close() in a row therefore adds no
\* terminator to the one the first wrote.
C19_CloseNotOpen ==
  (last.op = "close" /\ last.pre.hfile = "none")
  => /\ Here = last.pre
     /\ ~last.fr.called
     /\ Count(log, IsEof) = Count(last.pre.log, IsEof)

\* close() was called twice in a row on a compression-enabled stream: the
\* file holds the one terminator of the first.
C19_Witness ==
  /\ Len(calls) = 3
  /\ calls[2].op = "close" /\ calls[3].op = "close"
  /\ fileSys /\ LZOCompressionLevel # 0
  /\ Count(log, IsEof) = 1
  /\ last.pre.hfile = "none"

\* C20: backlog bound.  In every reachable state the backlog is shorter than
\* lzo_block_size; it is empty right after openWrite has created a fresh
\* compression-enabled stream, after every call in which the framer consumed
\* its data, whether the compressor succeeded or failed, and after close() on
\* an open compression-enabled writer.
C20_BacklogBound ==
  /\ Len(LZObacklogBuffer) < lzo_block_size
  /\ ( ( /\ last.op \in {"openWrite", "openTruncate"}
         /\ last.ret /\ last.opened = "write"
         /\ LZOCompressionLevel # 0 )
       => LZObacklogBuffer = <<>> )
  /\ ( (last.fr.called /\ last.fr.consumed) => LZObacklogBuffer = <<>> )
  /\ ( (last.op = "close" /\ last.pre.hfile # "none" /\ last.pre.level # 0)
       => LZObacklogBuffer = <<>> )

\* A write() whose data, with the backlog before it, reached the block size
\* met a compressor failure: the framer had consumed the backlog.
C20_Witness ==
  /\ last.op = "write"
  /\ last.fr.called /\ last.fr.consumed /\ ~last.fr.success
  /\ last.at.backlog # <<>>
  /\ LZObacklogBuffer = <<>>
====
